---- MODULE Spec2Model ----
(***************************************************************************)
(* Real-time earnings calculator (WorkMotivation): the shift accounting,   *)
(* the weekend entries, the two persisted maps and the period calendars    *)
(* of the script in src/unnamed/part_000, lines 435-1084.                  *)
(*                                                                         *)
(* Units.  Time is counted in quarter hours ("quarters").  A Date object   *)
(* is represented by its host-local wall clock reading, as a number of     *)
(* quarters since local midnight of day 1 of the displayed month; every    *)
(* Date of the script is built from local fields.  Money is an integer     *)
(* number of 1/MoneyDen pesos, which is exact for every amount the script  *)
(* computes in the displayed month.                                        *)
(***************************************************************************)
EXTENDS Integers, Sequences, FiniteSets, TLC

(***************************************************************************)
(* Bounds of the model.                                                    *)
(***************************************************************************)
\* the longest session, in quarters of an hour after its first clock reading
MaxSessionQuarters == 46
\* the longest time between two runs of the timer callback, in quarters
MaxTickDelay == 2

(***************************************************************************)
(* Compensation constants.                                                 *)
(***************************************************************************)
monthlySalary == 28200
halfSalary == monthlySalary \div 2
workingDaysPerMonth == 26
hoursPerDay == 8
\* percentages: 0.18, 1.25, 1.3 and 1.69 of the hourly rate
nightDiffRate == 18
overtimeMultiplier == 125
weekendBaseMultiplier == 130
weekendExtraMultiplier == 169
deMinimisMonthly == 280
paidShiftHours == 9
breakDurationHours == 1
gracePeriodMinutes == 15

Min(a, b) == IF a <= b THEN a ELSE b
Max(a, b) == IF a >= b THEN a ELSE b

\* quarters in an hour and in a day
QPH == 60 \div gracePeriodMinutes
QPD == 24 * QPH

\* the displayed month: October 2027, 31 days, the 1st is a Friday
\* (getDay numbering, 0 is Sunday)
MonthFirstDow == 5
MonthDays == 31

\* weekday counts of the two periods of the displayed month divide MoneyDen,
\* and so does workingDaysPerMonth * hoursPerDay * 400
MoneyDen == workingDaysPerMonth * hoursPerDay * 110
Pesos(n) == n * MoneyDen

hourlyRate == (monthlySalary * MoneyDen) \div (workingDaysPerMonth * hoursPerDay)
\* hourlyRate * (pct / 100) * (minutes / 60), in money units
RatePayMinutes(minutes, pct) == (hourlyRate \div (100 * 60)) * minutes * pct
\* the same for a time in quarters
RatePay(quarters, pct) == RatePayMinutes(quarters * gracePeriodMinutes, pct)

annualSalary == monthlySalary * 12
annualTaxExcess == Max(annualSalary - 250000, 0)
\* annualTaxExcess * 0.15
annualTax == Pesos((annualTaxExcess * 15) \div 100)
semiMonthlyTax == annualTax \div 24
\* monthlySalary * 0.05
monthlySSS == Pesos(monthlySalary) \div 20
semiMonthlySSS == monthlySSS \div 2
\* monthlySalary * 0.025, between 250 and 1250
monthlyPhilHealthEmployee == Min(Max(Pesos(monthlySalary) \div 40, Pesos(250)), Pesos(1250))
semiMonthlyPhilHealth == monthlyPhilHealthEmployee \div 2
\* monthlySalary * 0.02, at most 200
monthlyPagIbig == Min(Pesos(monthlySalary) \div 50, Pesos(200))
semiMonthlyPagIbig == monthlyPagIbig \div 2
semiMonthlyDeductions == semiMonthlyTax + semiMonthlySSS + semiMonthlyPhilHealth + semiMonthlyPagIbig

(***************************************************************************)
(* The host: its time zone and its document.                               *)
(***************************************************************************)
\* offset: quarters east of UTC; fallsBack: daylight saving time ends in
\* the displayed month, at the local wall reading fallBackAt, from which the
\* offset is one hour less
HostZones ==
  { [name |-> "Asia/Manila", offset |-> 8 * QPH, fallsBack |-> FALSE, fallBackAt |-> 0],
    [name |-> "UTC", offset |-> 0, fallsBack |-> FALSE, fallBackAt |-> 0],
    [name |-> "America/New_York", offset |-> (0 - 4) * QPH, fallsBack |-> FALSE,
     fallBackAt |-> 0],
    \* Egypt leaves daylight saving time at 24:00 of the last Thursday of
    \* October, the 28th
    [name |-> "Africa/Cairo", offset |-> 3 * QPH, fallsBack |-> TRUE,
     fallBackAt |-> 28 * QPD],
    \* central Europe leaves daylight saving time at 03:00 of the last Sunday
    \* of October, the 31st
    [name |-> "Europe/Berlin", offset |-> 2 * QPH, fallsBack |-> TRUE,
     fallBackAt |-> 30 * QPD + 3 * QPH] }

LiveIds == << "time-worked", "base-earnings", "night-earnings", "mid-earnings",
              "ot-earnings", "total-earnings" >>
LiveIdSet == { LiveIds[i] : i \in 1..Len(LiveIds) }
CalendarIds(period) ==
  IF period = 1 THEN { "calendar-title-1", "calendar-grid-1", "period-total-1" }
  ELSE { "calendar-title-2", "calendar-grid-2", "period-total-2" }
AllIds == LiveIdSet \cup CalendarIds(1) \cup CalendarIds(2) \cup { "end-shift-btn" }

\* the documents the script is loaded into
Documents ==
  { AllIds,
    AllIds \ { "ot-earnings" },
    AllIds \ { "calendar-grid-1" } }

(***************************************************************************)
(* Date arithmetic.                                                        *)
(***************************************************************************)
Offset(z, w) ==
  IF z.fallsBack /\ w >= z.fallBackAt THEN z.offset - QPH ELSE z.offset

\* Date.prototype.getTime, in quarters
getTime(z, w) == w - Offset(z, w)
getHours(w) == (w % QPD) \div QPH
getDate(w) == (w \div QPD) + 1
getDay(w) == (MonthFirstDow + (w \div QPD)) % 7
\* new Date(year, month, day)
DateOf(day) == (day - 1) * QPD
\* date.toISOString().split('T')[0]: the UTC calendar day of the instant,
\* as a day number of the displayed month (0 is the day before the 1st)
toISODate(z, w) == (getTime(z, w) \div QPD) + 1

\* getShiftStart without the step back to the previous day
getShiftStartSameDay(date) == (date \div QPD) * QPD + 22 * QPH

getShiftStart(date) ==
  LET start == (date \div QPD) * QPD + 22 * QPH
  IN IF getHours(date) < 8 THEN start - QPD ELSE start

\* Math.max((now.getTime() - start.getTime()) / (1000 * 60 * 60), 0)
ElapsedSince(z, now, start) == Max(getTime(z, now) - getTime(z, start), 0)

\* a test of the rest day that knows Sunday only
IsSundayOnly(w) == getDay(w) = 0

IsWeekendDay(w) == getDay(w) = 0 \/ getDay(w) = 6

\* a count that stops before the end date
RECURSIVE WeekdaysBetweenExclusive(_, _, _)
WeekdaysBetweenExclusive(firstDow, startDay, endDay) ==
  IF startDay >= endDay THEN 0
  ELSE (IF ((firstDow + startDay - 1) % 7) \notin { 0, 6 } THEN 1 ELSE 0)
       + WeekdaysBetweenExclusive(firstDow, startDay + 1, endDay)

\* the loop of getWeekdaysBetween over the days startDay..endDay of a month
\* whose 1st is the day firstDow of the week
RECURSIVE WeekdaysBetweenIn(_, _, _)
WeekdaysBetweenIn(firstDow, startDay, endDay) ==
  IF startDay > endDay THEN 0
  ELSE (IF ((firstDow + startDay - 1) % 7) \notin { 0, 6 } THEN 1 ELSE 0)
       + WeekdaysBetweenIn(firstDow, startDay + 1, endDay)

getWeekdaysBetween(startDay, endDay) ==
  WeekdaysBetweenIn(MonthFirstDow, startDay, endDay)

PeriodOf(dayOfMonth) == IF dayOfMonth <= 15 THEN 1 ELSE 2
PeriodStartDay(period) == IF period = 1 THEN 1 ELSE 16
PeriodEndDay(period) == IF period = 1 THEN 15 ELSE MonthDays

\* the dates of a period that starts a day early
PayPeriodDatesEarly(lastDay, period) ==
  [ i \in 1..((IF period = 1 THEN 15 ELSE lastDay) - PeriodStartDay(period) + 2) |->
      PeriodStartDay(period) + i - 2 ]

\* the day numbers getPayPeriodDates pushes in a month of lastDay days
PayPeriodDatesOf(lastDay, period) ==
  [ i \in 1..((IF period = 1 THEN 15 ELSE lastDay) - PeriodStartDay(period) + 1) |->
      PeriodStartDay(period) + i - 1 ]

getPayPeriodDates(period) == PayPeriodDatesOf(MonthDays, period)

(***************************************************************************)
(* Formatting.                                                             *)
(***************************************************************************)
\* value.toFixed(2): the amount rounded to centavos
toFixed2(value) ==
  LET a == IF value < 0 THEN 0 - value ELSE value
      c == (a \div MoneyDen) * 100 + ((a % MoneyDen) * 200 + MoneyDen) \div (2 * MoneyDen)
  IN IF value < 0 THEN 0 - c ELSE c
formatMoney(value) == << "PHP", toFixed2(value) >>

(***************************************************************************)
(* The persisted maps.  A map is a function from date keys to values; the  *)
(* store holds the JSON text of a map, some other text, or nothing.        *)
(***************************************************************************)
\* an assignment that drops the other keys of the map
PutAlone(m, k, v) == [ x \in {k} |-> v ]

EmptyMap == << >>
Put(m, k, v) == [ x \in (DOMAIN m) \cup {k} |-> IF x = k THEN v ELSE m[x] ]
Remove(m, k) == [ x \in (DOMAIN m) \ {k} |-> m[x] ]

Absent == [kind |-> "absent"]
\* a stored text that JSON.parse rejects, and one that parses to a value
\* that is not an object (a number, a string, true, null)
Unparseable == [kind |-> "unparseable"]
NotAnObject == [kind |-> "scalar"]
MalformedTexts == { Unparseable, NotAnObject }
\* a load that falls back to the empty map
LoadMapOrEmpty(mem, stored) == IF stored.kind = "object" THEN stored.value ELSE EmptyMap
JSONstringify(m) == [kind |-> "object", value |-> m]

\* loadCompletedWeekdayEarnings, loadWorkedWeekendDates: the stored map when
\* the stored text parses to an object, the map in memory otherwise
LoadMap(mem, stored) == IF stored.kind = "object" THEN stored.value ELSE mem
\* saveCompletedWeekdayEarnings, saveWorkedWeekendDates: setItem may throw,
\* and the exception is swallowed
SaveMap(ok, mem, stored) == IF ok THEN JSONstringify(mem) ELSE stored

(***************************************************************************)
(* Earnings.                                                               *)
(***************************************************************************)
\* the threshold without the grace period
maxHoursNoGrace == paidShiftHours * QPH

\* paidShiftHours + gracePeriodMinutes / 60, in quarters
maxHours == (paidShiftHours * 60 + gracePeriodMinutes) \div gracePeriodMinutes
PaidHours(elapsedHours) == Max(elapsedHours - breakDurationHours * QPH, 0)
BaseHrs(elapsedHours) == Min(PaidHours(elapsedHours), maxHours)
OtHrs(elapsedHours) == Max(PaidHours(elapsedHours) - maxHours, 0)
NightHrs(elapsedHours) == Min(BaseHrs(elapsedHours) + OtHrs(elapsedHours), 8 * QPH)

\* getWeekdaysBetween(periodStart, periodEnd) of the two periods
WeekdayCount == [ period \in 1..2 |->
                    getWeekdaysBetween(PeriodStartDay(period), PeriodEndDay(period)) ]

\* the half salary spread over half of the working days of a month
DailyBaseByWorkingDays(dayOfMonth) == Pesos(halfSalary) \div (workingDaysPerMonth \div 2)

\* halfSalary / weekdayCount for the period of the day
DailyBase(dayOfMonth) == Pesos(halfSalary) \div WeekdayCount[PeriodOf(dayOfMonth)]

\* totalPay of recordWeekdayEarnings
WeekdayTotalPay(shiftStart, elapsedHours) ==
  DailyBase(getDate(shiftStart))
    + RatePay(NightHrs(elapsedHours), nightDiffRate)
    + RatePay(OtHrs(elapsedHours), overtimeMultiplier)

recordWeekdayEarnings(cwe, z, shiftStart, elapsedHours) ==
  IF IsWeekendDay(shiftStart) THEN cwe
  ELSE Put(cwe, toISODate(z, shiftStart), WeekdayTotalPay(shiftStart, elapsedHours))

\* the breakdown of updateDisplay and of the end-shift handler
Breakdown(shiftStart, elapsedHours) ==
  LET baseHours == BaseHrs(elapsedHours)
      overtimeHours == OtHrs(elapsedHours)
      weekend == IsWeekendDay(shiftStart)
      baseEarnings ==
        IF weekend
        THEN RatePay(Min(baseHours, 8 * QPH), weekendBaseMultiplier)
               + RatePay(Max(baseHours - 8 * QPH, 0), weekendExtraMultiplier)
        ELSE RatePay(baseHours, 100)
      overtimeEarnings ==
        IF weekend THEN RatePay(overtimeHours, weekendExtraMultiplier)
        ELSE RatePay(overtimeHours, overtimeMultiplier)
      nightHours == NightHrs(elapsedHours)
      nightEarnings == RatePay(nightHours, nightDiffRate)
  IN [ paid |-> PaidHours(elapsedHours), nightHours |-> nightHours,
       base |-> baseEarnings, night |-> nightEarnings, mid |-> 0,
       ot |-> overtimeEarnings,
       total |-> baseEarnings + nightEarnings + 0 + overtimeEarnings ]

\* the text of one live field
LiveText(id, b) ==
  CASE id = "time-worked" ->
         << b.paid \div QPH, (b.paid % QPH) * gracePeriodMinutes, 0 >>
    [] id = "base-earnings" -> formatMoney(b.base)
    [] id = "night-earnings" -> formatMoney(b.night)
    [] id = "mid-earnings" -> formatMoney(b.mid)
    [] id = "ot-earnings" -> formatMoney(b.ot)
    [] OTHER -> formatMoney(b.total)

(***************************************************************************)
(* Text entered in the prompts.  A string is a sequence of characters.     *)
(***************************************************************************)
Digits == << "0", "1", "2", "3", "4", "5", "6", "7", "8", "9" >>
IsDigit(c) == \E i \in 1..10 : Digits[i] = c
DigitVal(c) == (CHOOSE i \in 1..10 : Digits[i] = c) - 1
NaN == [nan |-> TRUE]
Num(n) == [nan |-> FALSE, val |-> n]
\* the answer of a cancelled prompt
Null == << "" >>

\* the length of the longest prefix of s[from..] made of digits
RECURSIVE DigitRun(_, _)
DigitRun(s, from) ==
  IF from <= Len(s) /\ IsDigit(s[from]) THEN 1 + DigitRun(s, from + 1) ELSE 0

\* the number written by the digits s[from..from+n-1]
RECURSIVE DigitsValue(_, _, _)
DigitsValue(s, from, n) ==
  IF n = 0 THEN 0
  ELSE DigitsValue(s, from, n - 1) * 10 + DigitVal(s[from + n - 1])

RECURSIVE Pow10(_)
Pow10(n) == IF n = 0 THEN 1 ELSE 10 * Pow10(n - 1)

\* parseInt(s, 10): an optional sign and the longest run of digits
parseInt(s) ==
  LET signed == Len(s) >= 1 /\ s[1] \in { "-", "+" }
      from == IF signed THEN 2 ELSE 1
      n == DigitRun(s, from)
      v == DigitsValue(s, from, n)
  IN IF n = 0 THEN NaN
     ELSE Num(IF signed /\ s[1] = "-" THEN 0 - v ELSE v)

\* parseFloat(s) of the hours prompt, in minutes: an optional sign, digits,
\* and an optional point followed by digits
parseFloat(s) ==
  LET signed == Len(s) >= 1 /\ s[1] \in { "-", "+" }
      from == IF signed THEN 2 ELSE 1
      n == DigitRun(s, from)
      point == from + n <= Len(s) /\ s[from + n] = "."
      f == IF point THEN DigitRun(s, from + n + 1) ELSE 0
      whole == DigitsValue(s, from, n)
      frac == IF f = 0 THEN 0 ELSE (DigitsValue(s, from + n + 1, f) * 60) \div Pow10(f)
      v == whole * 60 + frac
  IN IF n = 0 /\ f = 0 THEN NaN
     ELSE Num(IF signed /\ s[1] = "-" THEN 0 - v ELSE v)

\* /^\d{1,2}:\d{2}$/.test(s)
TimeFormatOK(s) ==
  LET h == DigitRun(s, 1)
  IN /\ h \in 1..2
     /\ Len(s) = h + 3
     /\ s[h + 1] = ":"
     /\ IsDigit(s[h + 2])
     /\ IsDigit(s[h + 3])

\* startTime.split(':'): the first two parts, a missing part being empty
ColonAt(s) == { i \in 1..Len(s) : s[i] = ":" }
FirstColon(s, from) ==
  IF \E i \in ColonAt(s) : i >= from
  THEN CHOOSE i \in ColonAt(s) : i >= from /\ \A j \in ColonAt(s) : j >= from => i <= j
  ELSE Len(s) + 1
SplitPart0(s) == SubSeq(s, 1, FirstColon(s, 1) - 1)
SplitPart1(s) ==
  LET c == FirstColon(s, 1)
  IN IF c > Len(s) THEN << >> ELSE SubSeq(s, c + 1, FirstColon(s, c + 1) - 1)

(***************************************************************************)
(* Weekend entries.  hours is a number of minutes.                         *)
(***************************************************************************)
\* the night minutes of the start day only, from 22:00 to midnight
calculateNightHoursFirstDay(hours, startTime) ==
  LET startH == parseInt(SplitPart0(startTime))
      startM == parseInt(SplitPart1(startTime))
  IN IF startH.nan \/ startM.nan THEN 0
     ELSE LET startMinutes == startH.val * 60 + startM.val
          IN Max(0, Min(startMinutes + hours, 24 * 60) - Max(startMinutes, 22 * 60))

\* the night minutes of the next day only, once the shift crosses midnight
calculateNightHoursNextDay(hours, startTime) ==
  LET startH == parseInt(SplitPart0(startTime))
      startM == parseInt(SplitPart1(startTime))
  IN IF startH.nan \/ startM.nan THEN 0
     ELSE LET startMinutes == startH.val * 60 + startM.val
              endMinutes == startMinutes + hours
          IN IF endMinutes > 24 * 60
             THEN Max(0, Min(endMinutes - 24 * 60, 6 * 60))
             ELSE Max(0, endMinutes - Max(startMinutes, 22 * 60))
                    + (IF startMinutes < 6 * 60
                       THEN Max(0, Min(endMinutes, 6 * 60) - startMinutes) ELSE 0)

\* the night minutes of calculateNightHours
calculateNightHours(hours, startTime) ==
  LET startH == parseInt(SplitPart0(startTime))
      startM == parseInt(SplitPart1(startTime))
  IN IF startH.nan \/ startM.nan THEN 0
     ELSE
       LET startMinutes == startH.val * 60 + startM.val
           endMinutes == startMinutes + hours
           nightStart1 == 22 * 60
           nightEnd1 == 24 * 60
           day1End == Min(endMinutes, 1440)
           first == Max(0, Min(day1End, nightEnd1) - Max(startMinutes, nightStart1))
           nightStart2 == 0
           nightEnd2 == 6 * 60
           second ==
             IF endMinutes > 1440
             THEN Max(0, Min(endMinutes - 1440, nightEnd2) - nightStart2)
                    + (IF startMinutes < nightEnd2
                       THEN Min(nightEnd2, day1End) - startMinutes ELSE 0)
             ELSE (IF startMinutes < nightEnd2
                   THEN Max(0, Min(endMinutes, nightEnd2) - startMinutes) ELSE 0)
       IN first + second

\* weekend earnings with every hour at the rate of the first eight
calculateWeekendEarningsFlat(hours, startTime) ==
  RatePayMinutes(hours, weekendBaseMultiplier)
    + RatePayMinutes(calculateNightHours(hours, startTime), nightDiffRate)

calculateWeekendEarnings(hours, startTime) ==
  LET weekendBaseHours == Min(hours, 8 * 60)
      weekendExtraHours == Max(hours - 8 * 60, 0)
      basePay == RatePayMinutes(weekendBaseHours, weekendBaseMultiplier)
                   + RatePayMinutes(weekendExtraHours, weekendExtraMultiplier)
      nightHours == calculateNightHours(hours, startTime)
      nightPay == RatePayMinutes(nightHours, nightDiffRate)
  IN basePay + nightPay

(***************************************************************************)
(* The period calendars.                                                   *)
(***************************************************************************)
\* a day's earnings that ignore the recorded weekday totals
calculateDailyEarningsProjected(z, cwe, wwd, day) ==
  IF IsWeekendDay(DateOf(day))
  THEN (IF toISODate(z, DateOf(day)) \notin DOMAIN wwd THEN 0
        ELSE calculateWeekendEarnings(wwd[toISODate(z, DateOf(day))].hours,
                                      wwd[toISODate(z, DateOf(day))].startTime))
  ELSE DailyBase(day) + RatePay(Min(paidShiftHours, 8) * QPH, nightDiffRate)

calculateDailyEarningsForDate(z, cwe, wwd, day) ==
  LET date == DateOf(day)
      dateStr == toISODate(z, date)
  IN IF IsWeekendDay(date)
     THEN (IF dateStr \notin DOMAIN wwd THEN 0
           ELSE calculateWeekendEarnings(wwd[dateStr].hours, wwd[dateStr].startTime))
     ELSE IF dateStr \in DOMAIN cwe THEN cwe[dateStr]
     ELSE DailyBase(getDate(date))
            + RatePay(Min(paidShiftHours, 8) * QPH, nightDiffRate)

RECURSIVE SumDays(_, _, _, _, _)
SumDays(z, cwe, wwd, dates, n) ==
  IF n = 0 THEN 0
  ELSE SumDays(z, cwe, wwd, dates, n - 1)
         + calculateDailyEarningsForDate(z, cwe, wwd, dates[n])

\* a net total with the allowance split between the two periods
NetTotalSplitAllowance(z, cwe, wwd, period) ==
  LET dates == getPayPeriodDates(period)
  IN SumDays(z, cwe, wwd, dates, Len(dates)) + Pesos(deMinimisMonthly) \div 2
       - semiMonthlyDeductions

NetTotal(z, cwe, wwd, period) ==
  LET dates == getPayPeriodDates(period)
      periodTotal == SumDays(z, cwe, wwd, dates, Len(dates))
                       + (IF period = 1 THEN Pesos(deMinimisMonthly) ELSE 0)
  IN periodTotal - semiMonthlyDeductions

NotRendered == [rendered |-> FALSE]

\* what renderCalendar(period, ...) leaves in the document
renderCalendar(doc, old, z, now, cwe, wwd, period) ==
  IF ~(CalendarIds(period) \subseteq doc) THEN old
  ELSE
    LET dates == getPayPeriodDates(period)
        days == { dates[i] : i \in 1..Len(dates) }
    IN [ rendered |-> TRUE,
         tooltip |-> [ d \in days |->
                        formatMoney(calculateDailyEarningsForDate(z, cwe, wwd, d)) ],
         worked |-> { d \in days : IsWeekendDay(DateOf(d))
                                     /\ toISODate(z, DateOf(d)) \in DOMAIN wwd },
         today |-> { d \in days : d = getDate(now) },
         total |-> toFixed2(NetTotal(z, cwe, wwd, period)) ]

(***************************************************************************)
(* State.                                                                  *)
(***************************************************************************)
VARIABLES
  zone,                      \* the time zone of the host
  document,                  \* the ids of the elements of the page
  clock,                     \* getPhilippinesTime(), as a Date
  loaded,                    \* the script has been run
  timerOn,                   \* setInterval(updateDisplay, 1000) is in force
  clickBound,                \* the End Shift button has its click handler
  shiftEnded,
  endedElapsedHours,
  autoRecorded,
  btnDisabled,               \* endShiftBtn.disabled
  completedWeekdayEarnings,
  workedWeekendDetails,
  storedWeekday,             \* localStorage item 'completedWeekdayEarnings'
  storedWeekend,             \* localStorage item 'workedWeekendDetails'
  live,                      \* the text of the live fields
  calendar,                  \* the two rendered period calendars
  autoWrites,                \* history: writes made by autoRecordIfPastGrace
  autoArgs,                  \* history: the arguments of the first such write
  endInfo,                   \* history: the first End Shift that took effect
  lastClick                  \* history: the last click on a weekend cell that
                             \* removed or recorded an entry, and whether a
                             \* later click was abandoned

vars == << zone, document, clock, loaded, timerOn, clickBound, shiftEnded,
           endedElapsedHours, autoRecorded, btnDisabled,
           completedWeekdayEarnings, workedWeekendDetails, storedWeekday,
           storedWeekend, live, calendar, autoWrites, autoArgs, endInfo,
           lastClick >>

None == [set |-> FALSE]
NoClick == [set |-> FALSE, abandoned |-> FALSE]

\* the session opens on Thursday the 28th at 21:00
SessionStart == DateOf(28) + 21 * QPH
SessionEnd == SessionStart + MaxSessionQuarters
\* a session of a rest day opens on Saturday the 30th at 21:00
RestDayStart == DateOf(30) + 21 * QPH
\* a session that runs from a weekday into a rest day opens on Friday the
\* 29th at 21:00
FridayStart == DateOf(29) + 21 * QPH
\* the clock readings up to which the page stays open
InSession(c) ==
  \/ SessionStart <= c /\ c <= SessionEnd
  \/ FridayStart <= c /\ c <= FridayStart + MaxSessionQuarters
  \/ RestDayStart <= c /\ c <= RestDayStart + MaxSessionQuarters
\* setInterval does not run its callback on time: the tab is throttled or
\* the computer sleeps
TickDelays == 1..MaxTickDelay

\* setItem succeeds or throws
StoreOutcomes == BOOLEAN

\* the state in which the page is opened at the instant start, with each
\* of the two stored items in texts
InitFrom(start, texts) ==
  /\ zone \in HostZones
  /\ document \in Documents
  /\ clock = start
  /\ loaded = FALSE
  /\ timerOn = FALSE
  /\ clickBound = FALSE
  /\ shiftEnded = FALSE
  /\ endedElapsedHours = 0
  /\ autoRecorded = FALSE
  /\ btnDisabled = FALSE
  /\ completedWeekdayEarnings = EmptyMap
  /\ workedWeekendDetails = EmptyMap
  /\ storedWeekday \in texts
  /\ storedWeekend \in texts
  /\ live = [ id \in LiveIdSet |-> << >> ]
  /\ calendar = [ p \in 1..2 |-> NotRendered ]
  /\ autoWrites = 0
  /\ autoArgs = None
  /\ endInfo = None
  /\ lastClick = NoClick

\* the page opened on a host whose store holds nothing
InitAt(start) == InitFrom(start, { Absent })

Init == InitAt(SessionStart)

(***************************************************************************)
(* The tick.                                                               *)
(***************************************************************************)
PastGrace(elapsedHours) == PaidHours(elapsedHours) >= maxHours

\* autoRecordIfPastGrace without the test of the autoRecorded flag
autoRecordEveryTime(ended, auto, cwe, stored, z, shiftStart, elapsedHours, ok) ==
  IF ended \/ IsWeekendDay(shiftStart) \/ ~PastGrace(elapsedHours)
  THEN [wrote |-> FALSE, cwe |-> cwe, stored |-> stored]
  ELSE LET m == recordWeekdayEarnings(cwe, z, shiftStart, elapsedHours)
       IN [wrote |-> TRUE, cwe |-> m, stored |-> SaveMap(ok, m, stored)]

\* the outcome of autoRecordIfPastGrace(shiftStart, elapsedHours): whether
\* it records, and the map and the stored item it leaves
autoRecordIfPastGrace(ended, auto, cwe, stored, z, shiftStart, elapsedHours, ok) ==
  IF ended \/ auto THEN [wrote |-> FALSE, cwe |-> cwe, stored |-> stored]
  ELSE IF IsWeekendDay(shiftStart) THEN [wrote |-> FALSE, cwe |-> cwe, stored |-> stored]
  ELSE IF PastGrace(elapsedHours)
  THEN LET m == recordWeekdayEarnings(cwe, z, shiftStart, elapsedHours)
       IN [wrote |-> TRUE, cwe |-> m, stored |-> SaveMap(ok, m, stored)]
  ELSE [wrote |-> FALSE, cwe |-> cwe, stored |-> stored]

\* the index in LiveIds of the first field that is not in the page, where
\* updateDisplay throws; Len(LiveIds) + 1 when every field is there
FirstMissing(doc) ==
  IF LiveIdSet \subseteq doc THEN Len(LiveIds) + 1
  ELSE CHOOSE i \in 1..Len(LiveIds) :
         LiveIds[i] \notin doc /\ \A j \in 1..(i - 1) : LiveIds[j] \in doc

LiveIndex(id) == CHOOSE i \in 1..Len(LiveIds) : LiveIds[i] = id

\* the live fields after updateDisplay() at the instant now
LiveAfter(doc, old, b) ==
  [ id \in LiveIdSet |->
      IF LiveIndex(id) < FirstMissing(doc) THEN LiveText(id, b) ELSE old[id] ]

EffectiveElapsed(z, now) ==
  IF shiftEnded THEN endedElapsedHours ELSE ElapsedSince(z, now, getShiftStart(now))

\* updateDisplay() at the instant now, with the outcome ok of setItem
updateDisplay(now, ok) ==
  LET shiftStart == getShiftStart(now)
      effectiveElapsedHours == EffectiveElapsed(zone, now)
      threw == FirstMissing(document) <= Len(LiveIds)
      r == autoRecordIfPastGrace(shiftEnded, autoRecorded, completedWeekdayEarnings,
                                 storedWeekday, zone, shiftStart,
                                 effectiveElapsedHours, ok)
      wrote == ~threw /\ r.wrote
  IN [ threw |-> threw,
       live |-> LiveAfter(document, live, Breakdown(shiftStart, effectiveElapsedHours)),
       wrote |-> wrote,
       cwe |-> IF wrote THEN r.cwe ELSE completedWeekdayEarnings,
       stored |-> IF wrote THEN r.stored ELSE storedWeekday,
       args |-> [set |-> TRUE, start |-> shiftStart, elapsed |-> effectiveElapsedHours] ]

\* renderCalendars(): both maps are read back from the store, then both
\* calendars are rendered
renderCalendars(cwe, wwd, sWeekday, sWeekend, now) ==
  LET w == LoadMap(wwd, sWeekend)
      c == LoadMap(cwe, sWeekday)
  IN [ cwe |-> c, wwd |-> w,
       calendar |-> [ p \in 1..2 |->
                        renderCalendar(document, calendar[p], zone, now, c, w, p) ] ]

\* the script runs: the first updateDisplay(), setInterval, and the
\* DOMContentLoaded handler
ScriptLoad ==
  /\ ~loaded
  /\ loaded' = TRUE
  /\ \E ok \in StoreOutcomes :
     \E u \in { updateDisplay(clock, ok) } :
     \E rc \in { IF u.threw THEN None
                 ELSE renderCalendars(u.cwe, workedWeekendDetails, u.stored,
                                      storedWeekend, clock) } :
          /\ live' = u.live
          /\ storedWeekday' = u.stored
          /\ autoRecorded' = (autoRecorded \/ u.wrote)
          /\ autoWrites' = autoWrites + (IF u.wrote THEN 1 ELSE 0)
          /\ autoArgs' = IF u.wrote /\ ~autoArgs.set THEN u.args ELSE autoArgs
          /\ timerOn' = ~u.threw
          /\ clickBound' = (~u.threw /\ "end-shift-btn" \in document)
          /\ IF u.threw
             THEN /\ completedWeekdayEarnings' = u.cwe
                  /\ UNCHANGED << workedWeekendDetails, calendar >>
             ELSE /\ completedWeekdayEarnings' = rc.cwe
                  /\ workedWeekendDetails' = rc.wwd
                  /\ calendar' = rc.calendar
  /\ UNCHANGED << zone, document, clock, shiftEnded, endedElapsedHours, btnDisabled,
                  storedWeekend, endInfo, lastClick >>

\* a run of the timer callback: the clock has moved on and updateDisplay()
\* runs
Tick ==
  /\ loaded
  /\ timerOn
  /\ \E delay \in TickDelays, ok \in StoreOutcomes :
     \E u \in { updateDisplay(clock + delay, ok) } :
          /\ InSession(clock + delay)
          /\ clock' = clock + delay
          /\ live' = u.live
          /\ completedWeekdayEarnings' = u.cwe
          /\ storedWeekday' = u.stored
          /\ autoRecorded' = (autoRecorded \/ u.wrote)
          /\ autoWrites' = autoWrites + (IF u.wrote THEN 1 ELSE 0)
          /\ autoArgs' = IF u.wrote /\ ~autoArgs.set THEN u.args ELSE autoArgs
  /\ UNCHANGED << zone, document, loaded, timerOn, clickBound, shiftEnded,
                  endedElapsedHours, btnDisabled, workedWeekendDetails,
                  storedWeekend, calendar, endInfo, lastClick >>

\* time passes while no timer is running
Wait ==
  /\ ~timerOn
  /\ InSession(clock + 1)
  /\ clock' = clock + 1
  /\ UNCHANGED << zone, document, loaded, timerOn, clickBound, shiftEnded,
                  endedElapsedHours, autoRecorded, btnDisabled,
                  completedWeekdayEarnings, workedWeekendDetails, storedWeekday,
                  storedWeekend, live, calendar, autoWrites, autoArgs, endInfo,
                  lastClick >>

\* a click handler without the test of shiftEnded
EndShiftAlways(ended) == TRUE

\* if (!shiftEnded) of the click handler
EndShiftTakesEffect(ended) == ~ended

\* a click on the End Shift button
EndShift ==
  /\ loaded
  /\ clickBound
  /\ IF ~EndShiftTakesEffect(shiftEnded)
     THEN UNCHANGED << shiftEnded, endedElapsedHours, btnDisabled,
                       completedWeekdayEarnings, workedWeekendDetails,
                       storedWeekday, calendar, endInfo >>
     ELSE \E ok \in StoreOutcomes :
       LET now == clock
           start == getShiftStart(now)
           elapsed == ElapsedSince(zone, now, start)
           weekend == IsWeekendDay(start)
           totalPay == Breakdown(start, elapsed).total
           dateStr == toISODate(zone, start)
           written == IF weekend THEN completedWeekdayEarnings
                      ELSE Put(completedWeekdayEarnings, dateStr, totalPay)
           saved == IF weekend THEN storedWeekday
                    ELSE SaveMap(ok, written, storedWeekday)
       IN \E rc \in { renderCalendars(written, workedWeekendDetails, saved,
                                       storedWeekend, now) } :
          /\ endedElapsedHours' = elapsed
          /\ shiftEnded' = TRUE
          /\ btnDisabled' = TRUE
          /\ storedWeekday' = saved
          /\ completedWeekdayEarnings' = rc.cwe
          /\ workedWeekendDetails' = rc.wwd
          /\ calendar' = rc.calendar
          /\ endInfo' = IF endInfo.set THEN endInfo
                         ELSE [ set |-> TRUE, at |-> now, start |-> start,
                                elapsed |-> elapsed, weekend |-> weekend,
                                baseHrs |-> BaseHrs(elapsed),
                                otHrs |-> OtHrs(elapsed),
                                total |-> totalPay, saved |-> ok,
                                before |-> calendar,
                                cweBefore |-> completedWeekdayEarnings ]
  /\ UNCHANGED << zone, document, clock, loaded, timerOn, clickBound, autoRecorded,
                  storedWeekend, live, autoWrites, autoArgs, lastClick >>

\* the beforeunload handler (the page may stay open after it has run)
BeforeUnload ==
  /\ loaded
  /\ \E ok \in StoreOutcomes :
       LET now == clock
           start == getShiftStart(now)
           elapsedHours == ElapsedSince(zone, now, start)
           r == autoRecordIfPastGrace(shiftEnded, autoRecorded,
                                      completedWeekdayEarnings, storedWeekday,
                                      zone, start, elapsedHours, ok)
           wrote == ~shiftEnded /\ ~autoRecorded /\ r.wrote
       IN /\ completedWeekdayEarnings' = IF wrote THEN r.cwe ELSE completedWeekdayEarnings
          /\ storedWeekday' = IF wrote THEN r.stored ELSE storedWeekday
          /\ autoRecorded' = (autoRecorded \/ wrote)
          /\ autoWrites' = autoWrites + (IF wrote THEN 1 ELSE 0)
          /\ autoArgs' = IF wrote /\ ~autoArgs.set
                         THEN [set |-> TRUE, start |-> start, elapsed |-> elapsedHours]
                         ELSE autoArgs
  /\ UNCHANGED << zone, document, clock, loaded, timerOn, clickBound, shiftEnded,
                  endedElapsedHours, btnDisabled, workedWeekendDetails,
                  storedWeekend, live, calendar, endInfo, lastClick >>

(***************************************************************************)
(* The shift: the script runs, the timer ticks, the shift is ended by the  *)
(* button, and the page may be about to close.                             *)
(***************************************************************************)
Next == ScriptLoad \/ Tick \/ Wait \/ EndShift \/ BeforeUnload

Spec == Init /\ [][Next]_vars

\* the same page opened on a rest day
InitRestDay == InitAt(RestDayStart)

\* the same page opened on the eve of a rest day
InitFriday == InitAt(FridayStart)

SpecFriday == InitFriday /\ [][Next]_vars

\* the page opened on a host whose store holds malformed texts
MalformedZones == { z \in HostZones : z.name \in { "Asia/Manila", "Africa/Cairo" } }
InitMalformed == InitFrom(SessionStart, MalformedTexts) /\ zone \in MalformedZones

SpecMalformed == InitMalformed /\ [][Next]_vars

SpecRestDay == InitRestDay /\ [][Next]_vars

(***************************************************************************)
(* Properties of the shift.                                                *)
(***************************************************************************)
\* the shift that starts on Thursday the 28th at 22:00
ThursdayShift == DateOf(28) + 22 * QPH
\* the elapsed time the handlers compute at the present instant
ElapsedNow == ElapsedSince(zone, clock, getShiftStart(clock))
RawElapsedNow == getTime(zone, clock) - getTime(zone, getShiftStart(clock))

\* C1 (as claimed): a weekday shift whose ticks keep running and that is
\* never ended by the button is recorded by auto-finalization: once the
\* clock is 9h15m of paid time past the start of Thursday's shift, the map
\* holds a total for the date of that start.
C1_AutoFinalizedByGrace ==
  ( /\ timerOn
    /\ ~shiftEnded
    /\ clock >= ThursdayShift + breakDurationHours * QPH + maxHours )
  => toISODate(zone, ThursdayShift) \in DOMAIN completedWeekdayEarnings

\* C2 (as claimed): the total auto-finalization stored is the total End Shift
\* would store for the same shift start and the same elapsed time.
C2_AutoTotalIsEndShiftTotal ==
  ( /\ autoArgs.set
    /\ ~shiftEnded
    /\ toISODate(zone, autoArgs.start) \in DOMAIN completedWeekdayEarnings )
  => completedWeekdayEarnings[toISODate(zone, autoArgs.start)]
       = Breakdown(autoArgs.start, autoArgs.elapsed).total

\* the days shown by the rendered calendars
ShownDays(cal) ==
  { pd \in (1..2) \X (1..MonthDays) :
      cal[pd[1]].rendered /\ pd[2] \in DOMAIN cal[pd[1]].tooltip }

\* C3 (as claimed): after End Shift has recorded and saved the total of a
\* weekday shift that started on day D, the calendar shows the recorded
\* total for day D and, for every other day, what it showed before.
C3_RecordedShownOnItsDay ==
  ( /\ endInfo.set
    /\ ~endInfo.weekend
    /\ endInfo.saved
    /\ calendar[PeriodOf(getDate(endInfo.start))].rendered )
  => LET D == getDate(endInfo.start)
     IN /\ calendar[PeriodOf(D)].tooltip[D] = formatMoney(endInfo.total)
        /\ \A pd \in ShownDays(endInfo.before) :
             pd[2] # D =>
               calendar[pd[1]].tooltip[pd[2]] = endInfo.before[pd[1]].tooltip[pd[2]]

\* C4 (as claimed): once auto-finalization has written a value for a date,
\* no later step of the session changes that value or the state of the shift.
C4_AutoFinalizedIsFinal ==
  [][ autoRecorded =>
        /\ autoRecorded'
        /\ shiftEnded' = shiftEnded
        /\ completedWeekdayEarnings' = completedWeekdayEarnings ]_vars

\* C4 (amended): once auto-finalization has written a value for a date, no
\* later tick and no session-end hook changes the recorded map, the stored
\* map or the state of the shift; only End Shift still takes effect.
C4_AutoFinalizedKeptByTicks ==
  [][ (autoRecorded /\ (Tick \/ BeforeUnload)) =>
        /\ autoRecorded'
        /\ shiftEnded' = shiftEnded
        /\ completedWeekdayEarnings' = completedWeekdayEarnings
        /\ storedWeekday' = storedWeekday ]_vars

\* C4 witness: ticks went on after auto-finalization, into the next shift
\* window, and the record of the auto-finalized shift is still there.
C4_Witness ==
  /\ autoRecorded
  /\ ~shiftEnded
  /\ getShiftStart(clock) # autoArgs.start
  /\ toISODate(zone, autoArgs.start) \in DOMAIN completedWeekdayEarnings

\* C5: auto-finalization writes exactly once: the number of writes made by
\* autoRecordIfPastGrace is 1 once it has recorded and 0 before, however many
\* ticks and session-end hooks follow, and a tick that finds a weekday
\* shift not ended and past the grace period leaves exactly one write.
C5_ExactlyOneAutoWrite ==
  /\ autoWrites = (IF autoRecorded THEN 1 ELSE 0)
  /\ ( /\ timerOn
       /\ ~shiftEnded
       /\ ~IsWeekendDay(getShiftStart(clock))
       /\ PastGrace(ElapsedNow) ) => autoWrites = 1

\* C5 witness: the shift was recorded automatically and a later tick of the
\* same shift, still past the grace period, has run.
C5_Witness ==
  /\ autoWrites = 1
  /\ ~shiftEnded
  /\ getShiftStart(clock) = autoArgs.start
  /\ ElapsedNow > autoArgs.elapsed

\* C6: ENDED is terminal and End Shift is idempotent: once the shift is
\* ended, no step changes the ended flag, the frozen elapsed hours, the
\* disabled button, the recorded map or the stored map.
C6_EndedIsFinal ==
  [][ shiftEnded =>
        /\ shiftEnded'
        /\ btnDisabled'
        /\ endedElapsedHours' = endedElapsedHours
        /\ completedWeekdayEarnings' = completedWeekdayEarnings
        /\ storedWeekday' = storedWeekday
        /\ autoRecorded' = autoRecorded ]_vars

\* C6 witness: the shift was ended by the button and the clock has since
\* moved into the next shift window.
C6_Witness ==
  /\ shiftEnded
  /\ endInfo.set
  /\ clock > endInfo.at
  /\ getShiftStart(clock) # endInfo.start

\* C9 (as claimed): the derived shift-window start is a 22:00 boundary at or
\* before the present instant and less than 24 hours before it.
C9_StartAtOrBeforeNow ==
  LET start == getShiftStart(clock)
  IN /\ start % QPD = 22 * QPH
     /\ RawElapsedNow >= 0
     /\ RawElapsedNow < QPD

\* C9 (amended): the derived shift-window start is a 22:00 boundary.  When
\* the local hour is outside [8, 22) it is the latest one at or before the
\* instant, less than 24 hours before it.  When the local hour is in
\* [8, 22) it is 22:00 of the same calendar day, after the instant by at
\* most 14 hours, and the elapsed time is negative before it is clamped to 0.
C9_StartDerivation ==
  LET start == getShiftStart(clock)
      h == getHours(clock)
  IN /\ start % QPD = 22 * QPH
     /\ (h < 8 \/ h >= 22) =>
          /\ start <= clock
          /\ clock - start < QPD
          /\ RawElapsedNow >= 0
          /\ RawElapsedNow < QPD
          /\ ElapsedNow = RawElapsedNow
     /\ (h >= 8 /\ h < 22) =>
          /\ getDate(start) = getDate(clock)
          /\ RawElapsedNow < 0
          /\ RawElapsedNow >= 0 - 14 * QPH
          /\ ElapsedNow = 0

\* C9 witness: the script is running on Friday morning after 08:00, where
\* the start derived is Friday 22:00 and the time worked shows as zero.
C9_Witness ==
  /\ timerOn
  /\ getDate(clock) = 29
  /\ getHours(clock) >= 8
  /\ getShiftStart(clock) > clock
  /\ ~shiftEnded
  /\ live["time-worked"] = << 0, 0, 0 >>

\* C10 (as claimed): an element missing from the page only skips its own
\* render step: once the script has run, every live field of the page shows
\* the value of the latest tick, the timer is running, and every calendar
\* whose elements are in the page is rendered.
C10_OtherRegionsUpdated ==
  loaded =>
    /\ timerOn
    /\ \A id \in LiveIdSet \cap document :
         live[id] = LiveText(id, Breakdown(getShiftStart(clock),
                                           EffectiveElapsed(zone, clock)))
    /\ \A p \in 1..2 : CalendarIds(p) \subseteq document => calendar[p].rendered

(***************************************************************************)
(* Weekend entries: a click on a weekend cell of a rendered calendar.      *)
(***************************************************************************)
\* 9h15m, in quarters
NineHoursFifteen == 9 * QPH + 1

\* C15: for a weekday shift and every paid elapsed time p, in the live tick
\* and in End Shift, the base hours are min(p, 9h15m) and the overtime hours
\* max(p - 9h15m, 0): no overtime up to 9h15m, overtime pay at 1.25 times
\* the hourly rate above it, and base hours + overtime hours = p.
C15_OvertimeAboveGrace ==
  /\ ( /\ timerOn
       /\ getDay(getShiftStart(clock)) \notin { 0, 6 } )
     => LET p == Max(EffectiveElapsed(zone, clock) - QPH, 0)
        IN /\ live["base-earnings"]
                = formatMoney(RatePay(IF p <= NineHoursFifteen THEN p
                                      ELSE NineHoursFifteen, 100))
           /\ live["ot-earnings"]
                = formatMoney(IF p <= NineHoursFifteen THEN 0
                              ELSE RatePay(p - NineHoursFifteen, 125))
  /\ ( /\ endInfo.set
       /\ getDay(endInfo.start) \notin { 0, 6 } )
     => LET p == Max(endInfo.elapsed - QPH, 0)
        IN /\ endInfo.baseHrs = (IF p <= NineHoursFifteen THEN p ELSE NineHoursFifteen)
           /\ endInfo.otHrs = (IF p <= NineHoursFifteen THEN 0 ELSE p - NineHoursFifteen)
           /\ endInfo.baseHrs + endInfo.otHrs = p
           /\ endInfo.total
                = RatePay(endInfo.baseHrs, 100)
                    + RatePay(IF p <= 8 * QPH THEN p ELSE 8 * QPH, 18)
                    + RatePay(endInfo.otHrs, 125)

\* C15 witness: a weekday shift ended by the button above 9h15m of paid
\* time, with the live fields showing the frozen overtime.
C15_Witness ==
  /\ timerOn
  /\ endInfo.set
  /\ ~endInfo.weekend
  /\ endInfo.elapsed - QPH > NineHoursFifteen
  /\ endInfo.otHrs > 0
  /\ live["ot-earnings"] # formatMoney(0)
  /\ clock > endInfo.at

\* C23: loading a stored text that is malformed (unparseable, or not an
\* object) raises no error and leaves the map in memory as it was: at
\* startup it stays empty, the script goes on to render the calendars, and
\* they show projections for weekdays and zero for weekend days; after an
\* End Shift whose save failed the map in memory still has the total the
\* handler wrote.
C23_MalformedLoadKeepsMemory ==
  /\ ( /\ loaded
       /\ document = AllIds
       /\ storedWeekend \in MalformedTexts )
     => /\ workedWeekendDetails = EmptyMap
        /\ calendar[1].rendered /\ calendar[2].rendered
        /\ clickBound
        /\ \A p \in 1..2 : \A d \in DOMAIN calendar[p].tooltip :
             getDay(DateOf(d)) \in { 0, 6 } => calendar[p].tooltip[d] = formatMoney(0)
  /\ ( /\ loaded
       /\ document = AllIds
       /\ storedWeekday \in MalformedTexts
       /\ autoWrites = 0
       /\ ~endInfo.set )
     => /\ completedWeekdayEarnings = EmptyMap
        /\ \A p \in 1..2 : \A d \in DOMAIN calendar[p].tooltip :
             getDay(DateOf(d)) \notin { 0, 6 } =>
               calendar[p].tooltip[d]
                 = formatMoney((monthlySalary * MoneyDen)
                                 \div (2 * Cardinality({ x \in DOMAIN calendar[p].tooltip :
                                                           getDay(DateOf(x)) \notin { 0, 6 } }))
                               + RatePay(8 * QPH, 18))
  /\ ( /\ storedWeekday \in MalformedTexts
       /\ endInfo.set
       /\ ~endInfo.weekend )
     => /\ toISODate(zone, endInfo.start) \in DOMAIN completedWeekdayEarnings
        /\ completedWeekdayEarnings[toISODate(zone, endInfo.start)] = endInfo.total

\* C23 witness: the stored text is still malformed after an End Shift whose
\* save failed, and the total is in the map in memory.
C23_Witness ==
  /\ storedWeekday \in MalformedTexts
  /\ storedWeekend \in MalformedTexts
  /\ endInfo.set
  /\ ~endInfo.saved
  /\ ~endInfo.weekend
  /\ toISODate(zone, endInfo.start) \in DOMAIN completedWeekdayEarnings
  /\ calendar[2].rendered

\* C24: the two periods partition the month.  For every length of month,
\* period 1 is the days 1..15 in ascending order, period 2 the days 16..last
\* day in ascending order, and every day of the month is in exactly one of
\* the two lists, exactly once; the rendered calendars have one cell for
\* each of these days.
C24_PeriodsPartitionMonth ==
  /\ \A lastDay \in 28..31 :
       LET p1 == PayPeriodDatesOf(lastDay, 1)
           p2 == PayPeriodDatesOf(lastDay, 2)
       IN /\ Len(p1) = 15
          /\ \A i \in 1..Len(p1) : p1[i] = i
          /\ Len(p2) = lastDay - 15
          /\ \A i \in 1..Len(p2) : p2[i] = 15 + i
          /\ \A d \in 1..lastDay :
               Cardinality({ i \in 1..Len(p1) : p1[i] = d })
                 + Cardinality({ i \in 1..Len(p2) : p2[i] = d }) = 1
  /\ calendar[1].rendered => DOMAIN calendar[1].tooltip = 1..15
  /\ calendar[2].rendered => DOMAIN calendar[2].tooltip = 16..MonthDays

\* C24 witness: both calendars are rendered.
C24_Witness ==
  /\ loaded
  /\ calendar[1].rendered
  /\ calendar[2].rendered
  /\ 15 \in DOMAIN calendar[1].tooltip
  /\ MonthDays \in DOMAIN calendar[2].tooltip

\* the counts of getWeekdaysBetween for every first day of the week and every
\* range of days of a month are the numbers of days of the range that fall
\* on Monday to Friday
WeekdayCountsExact ==
  \A firstDow \in 0..6 : \A startDay, endDay \in 1..31 :
    WeekdaysBetweenIn(firstDow, startDay, endDay)
      = Cardinality({ d \in startDay..endDay : ((firstDow + d - 1) % 7) \in 1..5 })

\* C25: getWeekdaysBetween(start, end) is exactly the number of days of the
\* inclusive range [start, end] that fall on Monday to Friday, 0 when start
\* is after end, and 11 for the days 1..15 of a month whose 1st is a Monday;
\* the calendars spread the half salary over these counts.
C25_WeekdaysBetween ==
  /\ WeekdayCountsExact
  /\ WeekdaysBetweenIn(1, 1, 15) = 11
  /\ WeekdaysBetweenIn(1, 15, 1) = 0
  /\ \A p \in 1..2 :
       LET days == IF p = 1 THEN 1..15 ELSE 16..MonthDays
           n == Cardinality({ d \in days : getDay(DateOf(d)) \in 1..5 })
       IN /\ getWeekdaysBetween(IF p = 1 THEN 1 ELSE 16,
                                IF p = 1 THEN 15 ELSE MonthDays) = n
          /\ ( /\ calendar[p].rendered
               /\ completedWeekdayEarnings = EmptyMap )
             => \A d \in days :
                  getDay(DateOf(d)) \in 1..5 =>
                    calendar[p].tooltip[d]
                      = formatMoney((monthlySalary * MoneyDen) \div (2 * n)
                                    + RatePay(8 * QPH, 18))

\* C25 witness: the calendar of period 2 is rendered with the half salary
\* spread over its ten weekdays.
C25_Witness ==
  /\ calendar[2].rendered
  /\ completedWeekdayEarnings = EmptyMap
  /\ getWeekdaysBetween(16, MonthDays) = 10
  /\ calendar[2].tooltip[18]
       = formatMoney((monthlySalary * MoneyDen) \div 20 + RatePay(8 * QPH, 18))

\* C26 (as claimed): after End Shift the display is frozen: every later
\* tick, whichever day the clock has moved to, shows the paid time and the
\* base, night, overtime and total earnings of the breakdown computed at the
\* end instant.
C26_FrozenAfterEndShift ==
  ( /\ shiftEnded
    /\ endInfo.set
    /\ timerOn
    /\ clock > endInfo.at )
  => \A id \in LiveIdSet :
       live[id] = LiveText(id, Breakdown(endInfo.start, endInfo.elapsed))

\* C27 (as claimed): at every clock instant the elapsed time the tick derives
\* is at least 0 and below 10 hours, and is 0 whenever the local hour is in
\* [8, 22); hence while the shift is running the paid time is below 9 hours,
\* the overtime is 0 and the auto-finalization condition is false.
C27_ElapsedBelowTenHours ==
  /\ ElapsedNow >= 0
  /\ ElapsedNow < 10 * QPH
  /\ (getHours(clock) >= 8 /\ getHours(clock) < 22) => ElapsedNow = 0
  /\ ~shiftEnded =>
       /\ PaidHours(ElapsedNow) < paidShiftHours * QPH
       /\ OtHrs(ElapsedNow) = 0
       /\ ~PastGrace(ElapsedNow)

\* End Shift was clicked on a weekday while the local hour was in [8, 22)
EndedBeforeStart ==
  /\ endInfo.set
  /\ ~endInfo.weekend
  /\ getHours(endInfo.at) >= 8
  /\ getHours(endInfo.at) < 22
\* the key End Shift wrote, and the weekdays of the month whose cell looks
\* that key up
EndKey == toISODate(zone, endInfo.start)
EndLookupDays ==
  { d \in 1..MonthDays :
      toISODate(zone, DateOf(d)) = EndKey /\ ~IsWeekendDay(DateOf(d)) }
\* what a day earned with the map End Shift found
EarnedBeforeEnd(d) ==
  calculateDailyEarningsForDate(zone, endInfo.cweBefore, workedWeekendDetails, d)
\* the amount a period loses to the record of End Shift
EndDrop(period) ==
  LET ds == { d \in EndLookupDays : PeriodOf(d) = period }
  IN IF ds = {} THEN 0 ELSE EarnedBeforeEnd(CHOOSE d \in ds : TRUE)

WeekdaysOf(period) ==
  { d \in (IF period = 1 THEN 1..15 ELSE 16..MonthDays) :
      getDay(DateOf(d)) \notin { 0, 6 } }

\* C16: salary spreading.  When no weekday shift is recorded and no weekend
\* entry exists, in either period each weekday's value is
\* halfSalary / weekdayCount(period) + hourlyRate x nightDiffRate x 8, each
\* weekend day's value is 0, and the daily values add up to exactly half
\* the monthly salary plus weekdayCount(period) full-shift night
\* differentials; the calendars show these values.
C16_SalarySpreading ==
  ( /\ loaded
    /\ completedWeekdayEarnings = EmptyMap
    /\ workedWeekendDetails = EmptyMap )
  => \A p \in 1..2 :
       LET dates == getPayPeriodDates(p)
           n == Cardinality(WeekdaysOf(p))
           night == RatePay(8 * QPH, 18)
           value(d) == IF d \in WeekdaysOf(p)
                       THEN (monthlySalary * MoneyDen) \div (2 * n) + night
                       ELSE 0
       IN /\ \A i \in 1..Len(dates) :
               calculateDailyEarningsForDate(zone, completedWeekdayEarnings,
                                             workedWeekendDetails, dates[i])
                 = value(dates[i])
          /\ SumDays(zone, completedWeekdayEarnings, workedWeekendDetails,
                     dates, Len(dates))
               = (monthlySalary * MoneyDen) \div 2 + n * night
          /\ calendar[p].rendered =>
               \A d \in DOMAIN calendar[p].tooltip :
                 calendar[p].tooltip[d] = formatMoney(value(d))

\* C16 witness: both calendars are rendered from empty maps and the timer
\* has been running since.
C16_Witness ==
  /\ timerOn
  /\ clock > SessionStart
  /\ completedWeekdayEarnings = EmptyMap
  /\ workedWeekendDetails = EmptyMap
  /\ calendar[1].rendered
  /\ calendar[2].rendered
  /\ calendar[2].tooltip[28] # formatMoney(0)
  /\ calendar[2].tooltip[30] = formatMoney(0)

\* the shift that starts on Saturday the 30th at 22:00
SaturdayShift == DateOf(30) + 22 * QPH

\* C14: a shift whose calendar start day is Saturday or Sunday is never
\* written to the recorded map: no End Shift, no tick and no session-end
\* hook that finds such a shift changes the recorded map, the stored map or
\* the auto-finalization flag.
C14_RestDayNeverRecorded ==
  [][ getDay(getShiftStart(clock')) \in { 0, 6 } =>
        /\ completedWeekdayEarnings' = completedWeekdayEarnings
        /\ storedWeekday' = storedWeekday
        /\ autoRecorded' = autoRecorded
        /\ autoWrites' = autoWrites ]_vars

\* C14 witness: Saturday's shift ran past the grace period under the timer
\* and was then ended by the button, and nothing is recorded.
C14_Witness ==
  /\ timerOn
  /\ endInfo.set
  /\ endInfo.start = SaturdayShift
  /\ PastGrace(endInfo.elapsed)
  /\ shiftEnded
  /\ completedWeekdayEarnings = EmptyMap
  /\ storedWeekday = Absent

\* the weekend cells the model clicks: Saturday the 30th
ClickDays == { d \in { 30 } : IsWeekendDay(DateOf(d)) }

\* the answers given to the hours prompt and to the start time prompt
HoursAnswers ==
  { Null, << "8" >>, << "5", ".", "5" >>, << "1", "3" >>, << "2", "4" >>,
    << "2", "5" >>, << "0" >>, << "-", "2" >>, << "a", "b", "c" >> }
StartAnswers ==
  { Null, << "2", "2", ":", "0", "0" >>,
    << "5", ":", "0", "0" >>, << "1", "0", ":", "0", "0" >>,
    << "2", "3", ":", "0", "0" >>, << "2", "5", ":", "0", "0" >>,
    << "8", "p", "m" >>, << "0", "8", "0", "0" >> }

\* a test of the hours that rejects only what is not a number
HoursRejectedNaNOnly(h) == h.nan

\* isNaN(hours) || hours <= 0
HoursRejected(h) == h.nan \/ h.val <= 0

WeekendClick(day, remove, hoursAnswer, startAnswer) ==
  /\ loaded
  /\ calendar[PeriodOf(day)].rendered
  /\ IsWeekendDay(DateOf(day))
  /\ LET dateStr == toISODate(zone, DateOf(day))
         existing == dateStr \in DOMAIN workedWeekendDetails
         removes == existing /\ remove
         hours == parseFloat(hoursAnswer)
         kept == \/ hoursAnswer = Null
                 \/ HoursRejected(hours)
                 \/ startAnswer = Null
                 \/ ~TimeFormatOK(startAnswer)
     IN IF ~removes /\ kept
        THEN /\ lastClick' = [lastClick EXCEPT !.abandoned = TRUE]
             /\ UNCHANGED << completedWeekdayEarnings, workedWeekendDetails,
                               storedWeekend, calendar >>
        ELSE \E ok \in StoreOutcomes :
          LET written == IF removes THEN Remove(workedWeekendDetails, dateStr)
                         ELSE Put(workedWeekendDetails, dateStr,
                                  [hours |-> hours.val, startTime |-> startAnswer])
              saved == SaveMap(ok, written, storedWeekend)
          IN \E rc \in { renderCalendars(completedWeekdayEarnings, written,
                                          storedWeekday, saved, clock) } :
             /\ storedWeekend' = saved
             /\ lastClick' = [ set |-> TRUE, day |-> day, removed |-> removes,
                               hours |-> IF removes THEN 0 ELSE hours.val,
                               startTime |-> IF removes THEN Null ELSE startAnswer,
                               saved |-> ok, abandoned |-> FALSE ]
             /\ workedWeekendDetails' = rc.wwd
             /\ completedWeekdayEarnings' = rc.cwe
             /\ calendar' = rc.calendar
  /\ UNCHANGED << zone, document, clock, loaded, timerOn, clickBound, shiftEnded,
                  endedElapsedHours, autoRecorded, btnDisabled, storedWeekday,
                  live, autoWrites, autoArgs, endInfo >>

\* a click on a weekend cell and the answers to its dialogs; no prompt is
\* answered when the entry is removed
WeekendEdit ==
  \E day \in ClickDays, remove \in BOOLEAN,
     hoursAnswer \in HoursAnswers, startAnswer \in StartAnswers :
    /\ remove => (hoursAnswer = Null /\ startAnswer = Null)
    /\ WeekendClick(day, remove, hoursAnswer, startAnswer)

NextWeekend == ScriptLoad \/ WeekendEdit

\* the host and the page of the weekend entries
WeekendZones == { z \in HostZones : z.name = "Asia/Manila" }
InitWeekend == Init /\ zone \in WeekendZones /\ document = AllIds

SpecWeekend == InitWeekend /\ [][NextWeekend]_vars

(***************************************************************************)
(* Properties of the weekend entries.                                      *)
(***************************************************************************)
\* C7 (as claimed): the night hours that contribute to earnings never exceed
\* 8: neither those of a stored weekend entry, as calculateWeekendEarnings
\* computes them, nor those of the live tick and of End Shift.
C7_NightHoursAtMostEight ==
  /\ \A k \in DOMAIN workedWeekendDetails :
       calculateNightHours(workedWeekendDetails[k].hours,
                           workedWeekendDetails[k].startTime) <= 8 * 60
  /\ Breakdown(getShiftStart(clock), EffectiveElapsed(zone, clock)).nightHours <= 8 * QPH

\* a 24-hour HH:MM time of day
IsTimeOfDay(t) ==
  /\ t # Null
  /\ TimeFormatOK(t)
  /\ parseInt(SplitPart0(t)).val <= 23
  /\ parseInt(SplitPart1(t)).val <= 59

\* C8 (as claimed): recording or editing a weekend entry with a start time
\* that is not a valid 24-hour HH:MM time of day is rejected: no click
\* records an entry with such a start time.
C8_InvalidStartRejected ==
  (lastClick.set /\ ~lastClick.removed) => IsTimeOfDay(lastClick.startTime)

\* the key of the weekend cell of a day
CellKey(day) == toISODate(zone, DateOf(day))

\* C11 (as claimed): when the save of a weekend entry fails, the calendar
\* rendered right after the click reflects the mutation, whatever the store
\* held before: a removed entry is neither marked as worked nor paid, a
\* recorded entry is marked as worked and shows its earnings.
C11_FailedSaveKeepsMutation ==
  (lastClick.set /\ ~lastClick.saved) =>
    LET day == lastClick.day
        cal == calendar[PeriodOf(day)]
    IN IF lastClick.removed
       THEN /\ CellKey(day) \notin DOMAIN workedWeekendDetails
            /\ day \notin cal.worked
            /\ cal.tooltip[day] = formatMoney(0)
       ELSE /\ CellKey(day) \in DOMAIN workedWeekendDetails
            /\ day \in cal.worked
            /\ cal.tooltip[day]
                 = formatMoney(calculateWeekendEarnings(lastClick.hours,
                                                        lastClick.startTime))

\* C12 (as claimed): every mutation of a persisted map is followed in the
\* same step by a re-read and a re-render of both calendars, so in every
\* state the daily value shown for a date is the value derived from the
\* maps as a re-read gives them.
C12_DisplayedIsDerived ==
  \A p \in 1..2 :
    calendar[p].rendered =>
      \A d \in DOMAIN calendar[p].tooltip :
        calendar[p].tooltip[d]
          = formatMoney(calculateDailyEarningsForDate(
                          zone,
                          LoadMap(completedWeekdayEarnings, storedWeekday),
                          LoadMap(workedWeekendDetails, storedWeekend),
                          d))

\* C13 (as claimed): removing the weekend entry of date D makes the value
\* shown for D equal to 0, lowers the net total of the period of D by
\* exactly the earnings of the removed entry, and changes the value of no
\* other day.
C13_DeleteRemovesContribution ==
  [][ \A day \in ClickDays :
        ( /\ CellKey(day) \in DOMAIN workedWeekendDetails
          /\ WeekendClick(day, TRUE, Null, Null) )
        => LET p == PeriodOf(day)
               entry == workedWeekendDetails[CellKey(day)]
           IN /\ calendar'[p].tooltip[day] = formatMoney(0)
              /\ NetTotal(zone, completedWeekdayEarnings', workedWeekendDetails', p)
                   = NetTotal(zone, completedWeekdayEarnings, workedWeekendDetails, p)
                       - calculateWeekendEarnings(entry.hours, entry.startTime)
              /\ \A pd \in ShownDays(calendar) :
                   pd[2] # day =>
                     calendar'[pd[1]].tooltip[pd[2]] = calendar[pd[1]].tooltip[pd[2]] ]_vars

\* C17: for any maps, the net total shown for period 1 is the sum of its
\* daily values plus the full monthly de minimis allowance minus the
\* semi-monthly deductions, the one shown for period 2 is the sum of its
\* daily values minus the same deductions, with no allowance; the deductions
\* are annual tax / 24 plus half of each monthly contribution.
C17_NetTotals ==
  LET deductions == annualTax \div 24 + monthlySSS \div 2
                      + monthlyPhilHealthEmployee \div 2 + monthlyPagIbig \div 2
      sum(p) == SumDays(zone, completedWeekdayEarnings, workedWeekendDetails,
                        getPayPeriodDates(p), Len(getPayPeriodDates(p)))
  IN /\ semiMonthlyDeductions = deductions
     /\ calendar[1].rendered =>
          calendar[1].total = toFixed2(sum(1) + Pesos(deMinimisMonthly) - deductions)
     /\ calendar[2].rendered =>
          calendar[2].total = toFixed2(sum(2) - deductions)

\* C17 witness: both calendars are rendered with a weekend entry in the map.
C17_Witness ==
  /\ calendar[1].rendered
  /\ calendar[2].rendered
  /\ lastClick.set
  /\ CellKey(30) \in DOMAIN workedWeekendDetails

TenPM == << "2", "2", ":", "0", "0" >>
TenAM == << "1", "0", ":", "0", "0" >>

\* C18: for every weekend entry (hours, startTime), the earnings are
\* hourlyRate x (1.30 x min(hours, 8) + 1.69 x max(hours - 8, 0))
\* + hourlyRate x nightDiffRate x night hours of the entry, and the calendar
\* shows them; for 8 hours from 22:00 this is
\* hourlyRate x 1.30 x 8 + hourlyRate x nightDiffRate x 8.
C18_WeekendEarnings ==
  \A day \in ClickDays :
    CellKey(day) \in DOMAIN workedWeekendDetails =>
      LET e == workedWeekendDetails[CellKey(day)]
          \* the pay of one minute at one percent of the hourly rate
          unit == hourlyRate \div (100 * 60)
          first8 == IF e.hours <= 8 * 60 THEN e.hours ELSE 8 * 60
          beyond8 == IF e.hours <= 8 * 60 THEN 0 ELSE e.hours - 8 * 60
          pay == unit * (130 * first8 + 169 * beyond8)
                   + unit * 18 * calculateNightHours(e.hours, e.startTime)
      IN /\ calculateWeekendEarnings(e.hours, e.startTime) = pay
         /\ calendar[PeriodOf(day)].rendered =>
              calendar[PeriodOf(day)].tooltip[day] = formatMoney(pay)
         /\ (e.hours = 8 * 60 /\ e.startTime = TenPM) =>
              pay = unit * 130 * 8 * 60 + unit * 18 * 8 * 60

\* C18 witness: the entry of 8 hours from 22:00 is recorded and shown.
C18_Witness ==
  /\ calendar[2].rendered
  /\ CellKey(30) \in DOMAIN workedWeekendDetails
  /\ workedWeekendDetails[CellKey(30)] = [hours |-> 8 * 60, startTime |-> TenPM]
  /\ 30 \in calendar[2].worked

\* the minutes of [start, start + duration) whose clock time is in the
\* night window, from 22:00 to 06:00
NightOverlap(startMinutes, duration) ==
  Cardinality({ m \in startMinutes..(startMinutes + duration - 1) :
                  (m % (24 * 60)) >= 22 * 60 \/ (m % (24 * 60)) < 6 * 60 })

\* C19 (as claimed): for every entry with a valid start time of day and a
\* duration up to 24 hours, calculateNightHours is exactly the time of
\* [start, start + duration) between 22:00 and 06:00; from 10:00 it is 0 up
\* to 12 hours and the time worked past 22:00, at most 8 hours, beyond.
C19_NightHoursAreOverlap ==
  \A k \in DOMAIN workedWeekendDetails :
    LET e == workedWeekendDetails[k]
        startMinutes == parseInt(SplitPart0(e.startTime)).val * 60
                          + parseInt(SplitPart1(e.startTime)).val
    IN (IsTimeOfDay(e.startTime) /\ e.hours <= 24 * 60) =>
         /\ calculateNightHours(e.hours, e.startTime)
              = NightOverlap(startMinutes, e.hours)
         /\ e.startTime = TenAM =>
              calculateNightHours(e.hours, e.startTime)
                = Min(Max(e.hours - 12 * 60, 0), 8 * 60)

\* C20: for every duration, durations above 24 hours included,
\* calculateNightHours(hours, "22:00") = min(hours, 8).
C20_NightHoursFromTenPM ==
  \A k \in DOMAIN workedWeekendDetails :
    LET e == workedWeekendDetails[k]
    IN e.startTime = TenPM =>
         calculateNightHours(e.hours, e.startTime)
           = (IF e.hours <= 8 * 60 THEN e.hours ELSE 8 * 60)

\* C20 witness: an entry of more than 24 hours from 22:00 is recorded.
C20_Witness ==
  /\ CellKey(30) \in DOMAIN workedWeekendDetails
  /\ workedWeekendDetails[CellKey(30)].startTime = TenPM
  /\ workedWeekendDetails[CellKey(30)].hours > 24 * 60

\* the durations up to hours, in steps of half an hour
DurationsUpTo(hours) == { 30 * i : i \in 0..(hours \div 30) }

\* C21: for a fixed start time, calculateNightHours does not decrease with
\* the duration and has no jumps: for the start time of every entry and all
\* durations h1 <= h2 up to the entry's hours,
\* 0 <= nightHours(h2) - nightHours(h1) <= h2 - h1.
C21_NightHoursMonotone ==
  \A k \in DOMAIN workedWeekendDetails :
    LET e == workedWeekendDetails[k]
        night == [ h \in DurationsUpTo(e.hours) \cup { e.hours } |->
                     calculateNightHours(h, e.startTime) ]
    IN \A h1, h2 \in DOMAIN night :
         h1 <= h2 => /\ 0 <= night[h2] - night[h1]
                     /\ night[h2] - night[h1] <= h2 - h1

\* C21 witness: an entry of 25 hours from 23:00, whose durations cross
\* midnight, the end of the night window and the next evening.
C21_Witness ==
  /\ CellKey(30) \in DOMAIN workedWeekendDetails
  /\ workedWeekendDetails[CellKey(30)].hours = 25 * 60
  /\ workedWeekendDetails[CellKey(30)].startTime = << "2", "3", ":", "0", "0" >>

\* answers to the hours prompt that are not a positive number
BadHoursAnswers == { << "0" >>, << "-", "2" >>, << "a", "b", "c" >> }

C29_NightHoursWithinHours ==
  (lastClick.set /\ ~lastClick.removed) =>
    /\ calculateNightHours(lastClick.hours, lastClick.startTime) >= 0
    /\ calculateNightHours(lastClick.hours, lastClick.startTime) <= lastClick.hours

(***************************************************************************)
(* The shift and the weekend entries in one session: the page is open from *)
(* Friday 07:00 on the host whose night is an hour longer, the ticks run,  *)
(* and the cells of Saturday the 2nd (first period) and Saturday the 16th  *)
(* (second period) are clicked.                                            *)
(***************************************************************************)
FrameStart == DateOf(29) + 7 * QPH
FrameClickDays == { d \in { 2, 16 } : IsWeekendDay(DateOf(d)) }
FrameZones == { z \in HostZones : z.name = "Africa/Cairo" }

\* a click on one of the two cells: 8 hours from 22:00 are recorded, or (in
\* the cell of the 2nd) the entry is removed
FrameEdit ==
  \E day \in FrameClickDays, remove \in BOOLEAN :
    /\ remove => day = 2
    /\ WeekendClick(day, remove,
                    IF remove THEN Null ELSE << "8" >>,
                    IF remove THEN Null ELSE << "2", "2", ":", "0", "0" >>)

\* the live fields are all in the page, so the timer is always in force
NextFrame == ScriptLoad \/ Tick \/ EndShift \/ BeforeUnload \/ FrameEdit

InitFrame == InitAt(FrameStart) /\ zone \in FrameZones /\ document = AllIds

SpecFrame == InitFrame /\ [][NextFrame]_vars

\* the store holds what the last save of each map wrote: the text of the map
\* in memory, or nothing while the map is still empty
InSync(mem, stored) ==
  \/ stored = JSONstringify(mem)
  \/ stored = Absent /\ mem = EmptyMap
WorkingStore ==
  /\ InSync(completedWeekdayEarnings, storedWeekday)
  /\ InSync(workedWeekendDetails, storedWeekend)

\* two maps agree on every key but k
SameButFor(m1, m2, k) ==
  /\ DOMAIN m1 \ {k} = DOMAIN m2 \ {k}
  /\ \A x \in DOMAIN m1 \ {k} : m1[x] = m2[x]

\* C30: with a working store each mutating command changes only the entry of
\* its own date in its own map.  A step that changes the weekend map leaves
\* the recorded weekday totals, the flags of the shift and every other
\* date's weekend entry unchanged, and leaves the net total of the other
\* period unchanged; a step of End Shift or of a tick leaves the weekend map
\* unchanged and changes no recorded value but that of its own shift start.
C30_Frame ==
  [][ (WorkingStore /\ WorkingStore') =>
        /\ (workedWeekendDetails' # workedWeekendDetails) =>
             /\ UNCHANGED << completedWeekdayEarnings, storedWeekday, shiftEnded,
                             endedElapsedHours, autoRecorded, btnDisabled >>
             /\ lastClick'.set
             /\ SameButFor(workedWeekendDetails, workedWeekendDetails',
                           toISODate(zone, DateOf(lastClick'.day)))
             /\ \A p \in 1..2 :
                  p # PeriodOf(lastClick'.day) =>
                    NetTotal(zone, completedWeekdayEarnings', workedWeekendDetails', p)
                      = NetTotal(zone, completedWeekdayEarnings, workedWeekendDetails, p)
        /\ (\/ completedWeekdayEarnings' # completedWeekdayEarnings
            \/ shiftEnded' # shiftEnded
            \/ clock' # clock) =>
             /\ UNCHANGED << workedWeekendDetails, storedWeekend >>
             /\ SameButFor(completedWeekdayEarnings, completedWeekdayEarnings',
                           toISODate(zone, getShiftStart(clock')))
    ]_vars

\* both maps hold an entry, written by a weekend click and by End Shift or
\* a tick, and the store holds both
C30_Witness ==
  /\ WorkingStore
  /\ lastClick.set
  /\ ~lastClick.removed
  /\ Cardinality(DOMAIN workedWeekendDetails) = 2
  /\ completedWeekdayEarnings # EmptyMap
  /\ autoWrites = 1

====
